---- MODULE Spec2Model ----
(***************************************************************************)
(* Model of sor_analiz.py: the distance calibrator (auto_distance_factor), *)
(* the event table builder (extract_events_table) and the summary          *)
(* aggregator (summarize), driven in sequence by main.                     *)
(*                                                                         *)
(* Python floats are modelled as exact rationals [num, den] in lowest      *)
(* terms with den > 0, so that equality of values is equality of records.  *)
(* An optional value (a missing key or None) is the empty tuple, a present *)
(* value v is the one-element tuple <<v>>.                                 *)
(* Fields that are only carried through (event_number, reflection_loss,    *)
(* event_type, event_type_details, comment, optical_return_loss) take no   *)
(* part in any computation and are left out.                               *)
(***************************************************************************)
EXTENDS Integers, Sequences, FiniteSets

VARIABLES blocks, mode, pc, factor, rows, prev_dist_m, cum_loss_db, summary

vars == <<blocks, mode, pc, factor, rows, prev_dist_m, cum_loss_db, summary>>

\* Longest event list of the explored inputs.
MaxEvents == 3

-----------------------------------------------------------------------------
(* Optional values *)

None == <<>>

Some(v) == <<v>>

-----------------------------------------------------------------------------
(* Exact rational arithmetic standing for float arithmetic *)

Abs(x) == IF x < 0 THEN -x ELSE x

RECURSIVE GCD(_, _)
GCD(a, b) == IF b = 0 THEN a ELSE GCD(b, a % b)

Frac(n, d) ==
    LET g == GCD(Abs(n), Abs(d))
        s == IF d < 0 THEN -1 ELSE 1
    IN  [num |-> (s * n) \div g, den |-> (s * d) \div g]

Rat(n) == Frac(n, 1)

Zero == Rat(0)

Add(a, b) == Frac(a.num * b.den + b.num * a.den, a.den * b.den)

Sub(a, b) == Frac(a.num * b.den - b.num * a.den, a.den * b.den)

Mul(a, b) == Frac(a.num * b.num, a.den * b.den)

Div(a, b) == Frac(a.num * b.den, a.den * b.num)

Lt(a, b) == a.num * b.den < b.num * a.den

IsZero(a) == a.num = 0

\* float(x or 0.0): a missing (or zero) value reads as 0.0
OrZero(o) == IF o = None THEN Zero ELSE o[1]

\* max(...) of a non-empty collection of floats
MaxRat(S) == CHOOSE x \in S : \A y \in S : ~Lt(x, y)

-----------------------------------------------------------------------------
(* Access to the parsed blocks *)

EmptyKE == [events |-> None, fiber_length |-> None, total_loss |-> None]

\* blocks.get("KeyEvents") or {}
KeyEventsOf(b) == IF b.KeyEvents = None THEN EmptyKE ELSE b.KeyEvents[1]

\* ke.get("events") or []
EventsOf(b) == LET ev == KeyEventsOf(b).events IN IF ev = None THEN <<>> ELSE ev[1]

-----------------------------------------------------------------------------
(* Distance calibrator *)

\* max((float(e.get("distance_of_travel") or 0.0) for e in events), default=0.0)
MaxEventDistance(events) ==
    IF events = <<>> THEN Zero
    ELSE MaxRat({OrZero(events[i].distance_of_travel) : i \in 1..Len(events)})

\* Variant: both bands closed (<= for <), so a ratio on a boundary is in band.
auto_distance_factor_closedBands(b) ==
    LET fl     == KeyEventsOf(b).fiber_length
        max_ev == MaxEventDistance(EventsOf(b))
    IN  IF fl # None /\ ~IsZero(fl[1]) /\ ~IsZero(max_ev)
        THEN LET r == Div(max_ev, fl[1])
             IN  IF ~Lt(r, Frac(17, 10)) /\ ~Lt(Frac(23, 10), r) THEN Frac(1, 2)
                 ELSE IF ~Lt(r, Frac(17, 20)) /\ ~Lt(Frac(23, 20), r) THEN Rat(1)
                 ELSE Frac(1, 2)
        ELSE Frac(1, 2)

\* Variant: the one-way band (0.85, 1.15) is not recognised.
auto_distance_factor_alwaysHalf(b) == Frac(1, 2)

auto_distance_factor(b) ==
    LET fl     == KeyEventsOf(b).fiber_length
        max_ev == MaxEventDistance(EventsOf(b))
    IN  IF fl # None /\ ~IsZero(fl[1]) /\ ~IsZero(max_ev)
        THEN LET r == Div(max_ev, fl[1])
             IN  IF Lt(Frac(17, 10), r) /\ Lt(r, Frac(23, 10)) THEN Frac(1, 2)
                 ELSE IF Lt(Frac(17, 20), r) /\ Lt(r, Frac(23, 20)) THEN Rat(1)
                 ELSE Frac(1, 2)
        ELSE Frac(1, 2)

\* Variant: the fixed modes follow their names ("oneway" leaves the raw
\* distance alone, "twoway" halves it).
ModeFactor_byName(m, b) ==
    IF m = "twoway" THEN Frac(1, 2)
    ELSE IF m = "oneway" THEN Rat(1)
    ELSE auto_distance_factor(b)

\* main: the factor selected by --distance
ModeFactor(m, b) ==
    IF m = "twoway" THEN Rat(1)
    ELSE IF m = "oneway" THEN Frac(1, 2)
    ELSE auto_distance_factor(b)

-----------------------------------------------------------------------------
(* Event table builder *)

\* dist_m = float(e.get("distance_of_travel") or 0.0) * distance_factor
DistanceM(e, f) == Mul(OrZero(e.distance_of_travel), f)

\* Variant: the difference is not floored.
RelDistanceM_unclamped(dist_m, prev) == Sub(dist_m, prev)

\* rel_dist_m = dist_m - prev_dist_m, floored at 0.0
RelDistanceM(dist_m, prev) ==
    LET rel == Sub(dist_m, prev)
    IN  IF Lt(rel, Zero) THEN Zero ELSE rel

\* section_loss_db = slope_db_per_km * (rel_dist_m / 1000.0)
SectionLossDb(slope, rel) == Mul(slope, Div(rel, Rat(1000)))

\* Variant: the section loss is left out of the running sum.
AccumulateLoss_eventOnly(cum, event_loss, section_loss) == Add(cum, event_loss)

\* cum_loss_db += event_loss_db + section_loss_db
AccumulateLoss(cum, event_loss, section_loss) == Add(cum, Add(event_loss, section_loss))

\* the row appended for event e in one pass of the loop
BuildRow(e, f, prev, cum) ==
    LET dist_m          == DistanceM(e, f)
        slope_db_per_km == OrZero(e.slope)
        event_loss_db   == OrZero(e.splice_loss)
        rel_dist_m      == RelDistanceM(dist_m, prev)
        section_loss_db == SectionLossDb(slope_db_per_km, rel_dist_m)
    IN  [distance_m         |-> dist_m,
         rel_distance_m     |-> rel_dist_m,
         event_loss_db      |-> event_loss_db,
         slope_db_per_km    |-> slope_db_per_km,
         section_loss_db    |-> section_loss_db,
         cumulative_loss_db |-> AccumulateLoss(cum, event_loss_db, section_loss_db)]

\* Variant: the previous distance is not lowered by an out-of-order event.
AdvancePrev_onlyForward(dist_m, prev) == IF Lt(dist_m, prev) THEN prev ELSE dist_m

\* prev_dist_m = dist_m at the end of the loop body
AdvancePrev(dist_m, prev) == dist_m

-----------------------------------------------------------------------------
(* Summary aggregator *)

\* Variant: the last row's distance instead of the maximum.
FiberLengthM_lastRow(rs) == IF rs = <<>> THEN Zero ELSE rs[Len(rs)].distance_m

\* fiber_length_m = max(float(r["distance_m"]) for r in rows), 0.0 without rows
FiberLengthM(rs) ==
    IF rs = <<>> THEN Zero
    ELSE MaxRat({rs[i].distance_m : i \in 1..Len(rs)})

\* Variant: "if not total_loss" for "if total_loss is None", so a reported
\* total loss of 0 falls back to the rows.
TotalLossDb_truthy(ke, rs) ==
    IF ke.total_loss = None \/ IsZero(ke.total_loss[1])
    THEN IF rs # <<>> THEN rs[Len(rs)].cumulative_loss_db ELSE Zero
    ELSE ke.total_loss[1]

\* total_loss_db: KeyEvents.total_loss unless it is None
TotalLossDb(ke, rs) ==
    IF ke.total_loss = None
    THEN IF rs # <<>> THEN rs[Len(rs)].cumulative_loss_db ELSE Zero
    ELSE ke.total_loss[1]

\* fiber_length_km = fiber_length_m / 1000.0
FiberLengthKm(fiber_length_m) == Div(fiber_length_m, Rat(1000))

\* Variant: the guard is "!= 0" for "> 0".
AvgAttDbPerKm_nonZeroGuard(total_loss_db, fiber_length_km) ==
    IF ~IsZero(fiber_length_km) THEN Some(Div(total_loss_db, fiber_length_km)) ELSE None

\* Variant: 0.0 for None when the length is not positive.
AvgAttDbPerKm_zeroDefault(total_loss_db, fiber_length_km) ==
    IF Lt(Zero, fiber_length_km) THEN Some(Div(total_loss_db, fiber_length_km)) ELSE Some(Zero)

\* avg_att_db_per_km = total_loss_db / fiber_length_km if fiber_length_km > 0 else None
AvgAttDbPerKm(total_loss_db, fiber_length_km) ==
    IF Lt(Zero, fiber_length_km) THEN Some(Div(total_loss_db, fiber_length_km)) ELSE None

summarize(b, rs) ==
    LET ke              == KeyEventsOf(b)
        fiber_length_m  == FiberLengthM(rs)
        total_loss_db   == TotalLossDb(ke, rs)
        fiber_length_km == FiberLengthKm(fiber_length_m)
    IN  [fiber_length_m    |-> fiber_length_m,
         fiber_length_km   |-> fiber_length_km,
         total_loss_db     |-> total_loss_db,
         avg_att_db_per_km |-> AvgAttDbPerKm(total_loss_db, fiber_length_km)]

-----------------------------------------------------------------------------
(* Inputs *)

Modes == {"auto", "oneway", "twoway"}

SeqsUpTo(S, n) == UNION {[1..k -> S] : k \in 0..n}

\* Raw distances around both ratio bands and their four boundaries
\* (against fiber_length 1000 and 2000), a missing, a zero and a negative one;
\* fiber_length itself may be missing, zero or negative.
CalDistances ==
    {None, Some(Rat(0)), Some(Rat(-1000)), Some(Rat(850)), Some(Rat(1000)),
     Some(Rat(1700)), Some(Rat(2000)), Some(Rat(2300))}

CalEvents == [distance_of_travel : CalDistances, slope : {None}, splice_loss : {None}]

CalKeyEvents ==
    [events       : {Some(s) : s \in SeqsUpTo(CalEvents, MaxEvents)},
     fiber_length : {None, Some(Rat(0)), Some(Rat(-1000)), Some(Rat(1000)), Some(Rat(2000))},
     total_loss   : {None, Some(Frac(25, 2))}]

\* Events with and without slope and splice loss, in and out of order.
LossEvents ==
    [distance_of_travel : {Some(Rat(1000)), Some(Rat(2000))},
     slope              : {None, Some(Frac(-1, 5))},
     splice_loss        : {None, Some(Frac(1, 20))}]

LossKeyEvents ==
    [events       : {Some(s) : s \in SeqsUpTo(LossEvents, MaxEvents)},
     fiber_length : {Some(Rat(1000))},
     total_loss   : {None, Some(Rat(0)), Some(Frac(25, 2))}]

\* A KeyEvents block without an event list.
BareKeyEvents ==
    [events       : {None},
     fiber_length : {None, Some(Rat(1000))},
     total_loss   : {None, Some(Frac(25, 2))}]

InputBlocks ==
    {[KeyEvents |-> None]}
    \cup {[KeyEvents |-> Some(ke)] : ke \in CalKeyEvents \cup LossKeyEvents \cup BareKeyEvents}

-----------------------------------------------------------------------------
(* The run of main *)

Init ==
    /\ blocks \in InputBlocks
    /\ mode \in Modes
    /\ pc = "main"
    /\ factor = Zero
    /\ rows = <<>>
    /\ prev_dist_m = Zero
    /\ cum_loss_db = Zero
    /\ summary = None

\* entry of extract_events_table: rows = [], prev_dist_m = 0.0, cum_loss_db = 0.0
ExtractEnter ==
    /\ rows' = <<>>
    /\ prev_dist_m' = Zero
    /\ cum_loss_db' = Zero
    /\ pc' = "extract"

TwowayFactor ==
    /\ pc = "main"
    /\ mode = "twoway"
    /\ factor' = ModeFactor(mode, blocks)
    /\ ExtractEnter
    /\ UNCHANGED <<blocks, mode, summary>>

OnewayFactor ==
    /\ pc = "main"
    /\ mode = "oneway"
    /\ factor' = ModeFactor(mode, blocks)
    /\ ExtractEnter
    /\ UNCHANGED <<blocks, mode, summary>>

AutoFactor ==
    /\ pc = "main"
    /\ mode = "auto"
    /\ factor' = ModeFactor(mode, blocks)
    /\ ExtractEnter
    /\ UNCHANGED <<blocks, mode, summary>>

\* one pass of "for e in events"
ExtractStep ==
    /\ pc = "extract"
    /\ Len(rows) < Len(EventsOf(blocks))
    /\ LET e   == EventsOf(blocks)[Len(rows) + 1]
           row == BuildRow(e, factor, prev_dist_m, cum_loss_db)
       IN  /\ rows' = Append(rows, row)
           /\ cum_loss_db' = row.cumulative_loss_db
           /\ prev_dist_m' = AdvancePrev(row.distance_m, prev_dist_m)
    /\ UNCHANGED <<blocks, mode, pc, factor, summary>>

\* the loop is exhausted: return rows, then summary = summarize(blocks, rows)
Summarize ==
    /\ pc = "extract"
    /\ Len(rows) = Len(EventsOf(blocks))
    /\ summary' = Some(summarize(blocks, rows))
    /\ pc' = "done"
    /\ UNCHANGED <<blocks, mode, factor, rows, prev_dist_m, cum_loss_db>>

Next ==
    \/ TwowayFactor
    \/ OnewayFactor
    \/ AutoFactor
    \/ ExtractStep
    \/ Summarize

Spec == Init /\ [][Next]_vars

TypeOK ==
    /\ pc \in {"main", "extract", "done"}
    /\ mode \in Modes
    /\ Len(rows) <= Len(EventsOf(blocks))

-----------------------------------------------------------------------------
(* Properties *)

Thm_C2_CumulativeLoss ==
    \A i \in 1..Len(rows) :
        LET e      == EventsOf(blocks)[i]
            before == IF i = 1 THEN Zero ELSE rows[i - 1].cumulative_loss_db
            slope  == IF e.slope = None THEN Zero ELSE e.slope[1]
            loss   == IF e.splice_loss = None THEN Zero ELSE e.splice_loss[1]
        IN  /\ rows[i].slope_db_per_km = slope
            /\ rows[i].event_loss_db = loss
            /\ Mul(rows[i].section_loss_db, Rat(1000))
                 = Mul(rows[i].slope_db_per_km, rows[i].rel_distance_m)
            /\ Sub(rows[i].cumulative_loss_db, before)
                 = Add(rows[i].event_loss_db, rows[i].section_loss_db)

\* C2 witness: the spec's scenario shape. Two rows 500 m apart under factor
\* 0.5, each with slope -0.2 and splice loss 0.05: section loss -0.1 per row
\* and cumulative loss -0.05, then -0.1.
Wit_C2_TwoRows ==
    /\ Len(rows) = 2
    /\ factor = Frac(1, 2)
    /\ rows[1].rel_distance_m = Rat(500)
    /\ rows[2].rel_distance_m = Rat(500)
    /\ rows[1].section_loss_db = Frac(-1, 10)
    /\ rows[1].cumulative_loss_db = Frac(-1, 20)
    /\ rows[2].event_loss_db = Frac(1, 20)
    /\ rows[2].cumulative_loss_db = Frac(-1, 10)

\* C3: every row has rel_distance_m >= 0, in any order of the events and
\* for any raw distances, missing ones included.
Thm_C3_RelDistanceNonNegative ==
    \A i \in 1..Len(rows) : rows[i].rel_distance_m.num >= 0

\* C3 witness: a row whose calibrated distance lies below the previous
\* row's, and a first row with a negative distance.
Wit_C3_Regression ==
    /\ Len(rows) >= 2
    /\ rows[1].distance_m.num < 0
    /\ \E i \in 2..Len(rows) : Lt(rows[i].distance_m, rows[i - 1].distance_m)

\* C4: a row whose calibrated distance is below the previous row's has
\* rel_distance_m = 0.0 and section_loss_db = 0.0; every row's
\* rel_distance_m is max(0, distance_m - distance_m of the row before it
\* (0.0 before the first)), so the row after a clamped one is measured from
\* the clamped row's own distance; and after every processed event the
\* carried previous distance is that event's distance_m.
Thm_C4_PreviousDistanceAdvances ==
    /\ \A i \in 1..Len(rows) :
          LET before == IF i = 1 THEN Zero ELSE rows[i - 1].distance_m
              gap    == Sub(rows[i].distance_m, before)
          IN  /\ Lt(rows[i].distance_m, before) =>
                    /\ rows[i].rel_distance_m = Zero
                    /\ rows[i].section_loss_db = Zero
              /\ rows[i].rel_distance_m = (IF gap.num < 0 THEN Zero ELSE gap)
    /\ (pc # "main" /\ rows # <<>>) => prev_dist_m = rows[Len(rows)].distance_m

\* C4 witness: rows at 2000, 1000, 2000 with a slope on the second and third:
\* the second is clamped, the third is measured from 1000 m, not from 2000 m.
Wit_C4_RowAfterClamp ==
    /\ Len(rows) = 3
    /\ rows[1].distance_m = Rat(2000)
    /\ rows[2].distance_m = Rat(1000)
    /\ rows[2].slope_db_per_km = Frac(-1, 5)
    /\ rows[2].rel_distance_m = Zero
    /\ rows[3].distance_m = Rat(2000)
    /\ rows[3].rel_distance_m = Rat(1000)
    /\ prev_dist_m = Rat(2000)

\* C5: total_loss_db is KeyEvents.total_loss whenever that field is present
\* (0 included), whatever the rows' cumulative loss; when it is absent it is
\* the last row's cumulative_loss_db, or 0.0 without rows.
Thm_C5_TotalLoss ==
    pc = "done" =>
        LET tl == KeyEventsOf(blocks).total_loss
            s  == summary[1]
        IN  /\ tl # None => s.total_loss_db = tl[1]
            /\ (tl = None /\ rows # <<>>) =>
                  s.total_loss_db = rows[Len(rows)].cumulative_loss_db
            /\ (tl = None /\ rows = <<>>) => s.total_loss_db = Zero

\* C5 witness: total_loss is present with value 0 while the rows add up to a
\* non-zero cumulative loss.
Wit_C5_ZeroTotalLoss ==
    /\ pc = "done"
    /\ KeyEventsOf(blocks).total_loss = Some(Zero)
    /\ rows # <<>>
    /\ rows[Len(rows)].cumulative_loss_db # Zero
    /\ summary[1].total_loss_db = Zero

\* C6 as stated: avg_att_db_per_km is null when fiber_length_km = 0 and
\* otherwise equals total_loss_db / fiber_length_km, whatever the sign of
\* the rows' distances.
Cex_C6_AvgWheneverNonZero ==
    pc = "done" =>
        LET s == summary[1]
        IN  /\ s.fiber_length_km.num = 0 => s.avg_att_db_per_km = None
            /\ s.fiber_length_km.num # 0 =>
                  /\ s.avg_att_db_per_km # None
                  /\ Mul(s.avg_att_db_per_km[1], s.fiber_length_km) = s.total_loss_db

\* C6 amended: avg_att_db_per_km is null when fiber_length_km <= 0 (zero, or
\* negative when every row's distance is negative) and equals
\* total_loss_db / fiber_length_km when fiber_length_km > 0.
Thm_C6_AvgOnlyWhenPositive ==
    pc = "done" =>
        LET s == summary[1]
        IN  /\ s.fiber_length_km.num <= 0 => s.avg_att_db_per_km = None
            /\ s.fiber_length_km.num > 0 =>
                  /\ s.avg_att_db_per_km # None
                  /\ Mul(s.avg_att_db_per_km[1], s.fiber_length_km) = s.total_loss_db

\* C6 witness: every row lies at a negative distance, the device reports a
\* total loss, and the average is null.
Wit_C6_NegativeLength ==
    /\ pc = "done"
    /\ rows # <<>>
    /\ summary[1].fiber_length_km.num < 0
    /\ summary[1].total_loss_db = Frac(25, 2)
    /\ summary[1].avg_att_db_per_km = None

\* C7: with an empty or missing event list, or a missing KeyEvents block,
\* the table is empty and the summary has fiber_length_m = 0.0,
\* fiber_length_km = 0.0, avg_att_db_per_km = null, and total_loss_db = 0.0
\* when KeyEvents.total_loss is absent.
Thm_C7_EmptyInput ==
    LET noEvents == \/ blocks.KeyEvents = None
                    \/ blocks.KeyEvents[1].events = None
                    \/ blocks.KeyEvents[1].events = Some(<<>>)
    IN  noEvents =>
          /\ rows = <<>>
          /\ pc = "done" =>
                /\ summary # None
                /\ summary[1].fiber_length_m = Zero
                /\ summary[1].fiber_length_km = Zero
                /\ summary[1].avg_att_db_per_km = None
                /\ (blocks.KeyEvents = None \/ blocks.KeyEvents[1].total_loss = None)
                      => summary[1].total_loss_db = Zero

\* C7 witness: a run over blocks without a KeyEvents block has finished.
Wit_C7_NoKeyEvents ==
    /\ pc = "done"
    /\ blocks.KeyEvents = None
    /\ summary # None

\* C8: mode "twoway" gives factor 1.0 and mode "oneway" gives 0.5 whatever
\* the blocks hold, mode "auto" gives the heuristic's result, and the factor
\* is 0.5 or 1.0 in every mode.
Thm_C8_ModeFixesFactor ==
    pc # "main" =>
        /\ mode = "twoway" => factor = Rat(1)
        /\ mode = "oneway" => factor = Frac(1, 2)
        /\ mode = "auto" => factor = auto_distance_factor(blocks)
        /\ factor \in {Frac(1, 2), Rat(1)}
        /\ factor.num > 0

\* C8 witness: mode "twoway" on blocks the heuristic reads as round-trip
\* (ratio 2.0) still gives 1.0.
Wit_C8_ModeOverrulesHeuristic ==
    /\ pc = "done"
    /\ mode = "twoway"
    /\ auto_distance_factor(blocks) = Frac(1, 2)
    /\ KeyEventsOf(blocks).fiber_length = Some(Rat(1000))
    /\ MaxEventDistance(EventsOf(blocks)) = Rat(2000)
    /\ factor = Rat(1)

\* C9: fiber_length_m is the maximum distance_m over all rows (not the last
\* row's), or 0.0 without rows, and fiber_length_km = fiber_length_m / 1000.
Thm_C9_FiberLengthIsMaximum ==
    pc = "done" =>
        LET s == summary[1]
        IN  /\ rows = <<>> => s.fiber_length_m = Zero
            /\ rows # <<>> =>
                  /\ \E i \in 1..Len(rows) : rows[i].distance_m = s.fiber_length_m
                  /\ \A i \in 1..Len(rows) :
                        rows[i].distance_m.num * s.fiber_length_m.den
                          <= s.fiber_length_m.num * rows[i].distance_m.den
            /\ Mul(s.fiber_length_km, Rat(1000)) = s.fiber_length_m

\* C9 witness: the farthest event is not the last one.
Wit_C9_FarthestNotLast ==
    /\ pc = "done"
    /\ Len(rows) = 3
    /\ Lt(rows[1].distance_m, rows[2].distance_m)
    /\ Lt(rows[3].distance_m, rows[2].distance_m)
    /\ summary[1].fiber_length_m = rows[2].distance_m

====
